---- MODULE Spec2Model ----
(***************************************************************************)
(* Model of scraper_service.py: the discovery / ranking / fetching /        *)
(* extraction / normalisation / merge pipeline behind POST /scrape.         *)
(* Strings are TLA+ strings handled as character sequences, so lower(),     *)
(* endswith(), substring tests, urlparse().netloc and the regular           *)
(* expressions are computed character by character as Python computes them. *)
(***************************************************************************)
EXTENDS Integers, Sequences, FiniteSets, TLC

(***************************************************************************)
(* Python string primitives                                                 *)
(***************************************************************************)
UPPER == "ABCDEFGHIJKLMNOPQRSTUVWXYZ"
LOWER == "abcdefghijklmnopqrstuvwxyz"
DIGITS == "0123456789"

Min(a, b) == IF a < b THEN a ELSE b
Max(a, b) == IF a > b THEN a ELSE b

\* s[i:j] with 1-based inclusive bounds
Slice(s, i, j) == SubSeq(s, i, j)
CharAt(s, i) == SubSeq(s, i, i)

\* c in chars, for a one-character string c
InChars(c, chars) == \E i \in 1..Len(chars) : CharAt(chars, i) = c

UpperChars == {CharAt(UPPER, i) : i \in 1..Len(UPPER)}
LowerOf == [c \in UpperChars |-> CharAt(LOWER, CHOOSE i \in 1..Len(UPPER) : CharAt(UPPER, i) = c)]

\* str.lower() on one character
LowerChar(c) == IF c \in UpperChars THEN LowerOf[c] ELSE c

RECURSIVE Lower(_)
\* str.lower(), character by character (the text is halved to keep the recursion shallow)
Lower(s) ==
    IF Len(s) = 0 THEN ""
    ELSE IF Len(s) = 1 THEN LowerChar(s)
    ELSE LET h == Len(s) \div 2
         IN Lower(Slice(s, 1, h)) \o Lower(Slice(s, h + 1, Len(s)))

\* p occurs in s starting at index i
OccursAt(s, p, i) == i >= 1 /\ i + Len(p) - 1 <= Len(s) /\ Slice(s, i, i + Len(p) - 1) = p

\* the Python test `p in s`
Contains(s, p) == \E i \in 1..(Len(s) - Len(p) + 1) : OccursAt(s, p, i)

\* str.startswith / str.endswith
StartsWith(s, p) == OccursAt(s, p, 1)
EndsWith(s, p) == Len(p) <= Len(s) /\ OccursAt(s, p, Len(s) - Len(p) + 1)

RECURSIVE RemoveSpaces(_)
\* str.replace(" ", "")
RemoveSpaces(s) ==
    IF Len(s) = 0 THEN ""
    ELSE IF Len(s) = 1 THEN (IF s = " " THEN "" ELSE s)
    ELSE LET h == Len(s) \div 2
         IN RemoveSpaces(Slice(s, 1, h)) \o RemoveSpaces(Slice(s, h + 1, Len(s)))

\* whitespace as str.split() sees it
IsSpace(c) == c = " " \/ c = "\n" \/ c = "\t"

\* two collapsed pieces of text put together: words that were separated by
\* whitespace are joined by one space, a word cut in two is glued again
Glue(a, b) ==
    IF a.len = 0 THEN b
    ELSE IF b.len = 0 THEN a
    ELSE [len |-> a.len + b.len,
          lead |-> a.lead,
          trail |-> b.trail,
          txt |-> IF a.txt = "" THEN b.txt
                  ELSE IF b.txt = "" THEN a.txt
                  ELSE IF a.trail \/ b.lead THEN a.txt \o " " \o b.txt
                  ELSE a.txt \o b.txt]

RECURSIVE Collapse(_)
\* the words of s joined by single spaces, with whether s starts / ends in whitespace
Collapse(s) ==
    IF Len(s) <= 1
    THEN [len |-> Len(s), lead |-> IsSpace(s), trail |-> IsSpace(s),
          txt |-> IF IsSpace(s) THEN "" ELSE s]
    ELSE LET h == Len(s) \div 2
         IN Glue(Collapse(Slice(s, 1, h)), Collapse(Slice(s, h + 1, Len(s))))

\* " ".join(t.split())
SplitJoin(t) == Collapse(t).txt

\* sequence helpers
SeqToSet(s) == {s[i] : i \in 1..Len(s)}
NoDup(s) == \A i, j \in 1..Len(s) : s[i] = s[j] => i = j
Take(s, k) == SubSeq(s, 1, Min(Len(s), k))

RECURSIVE Dedup(_, _)
\* the seen-set / append loop used throughout the source; met is the seen set
Dedup(s, met) ==
    IF s = <<>> THEN <<>>
    ELSE IF Head(s) \in met THEN Dedup(Tail(s), met)
    ELSE <<Head(s)>> \o Dedup(Tail(s), met \cup {Head(s)})

(***************************************************************************)
(* Regular-expression primitives (re.IGNORECASE patterns are matched on the *)
(* lower-cased text against lower-case literals)                            *)
(***************************************************************************)
IsDigit(c) == InChars(c, DIGITS)
\* \w
IsWordChar(c) == InChars(c, LOWER) \/ InChars(c, UPPER) \/ IsDigit(c) \/ c = "_"

\* \b holds in front of index i (i = Len(s) + 1 is the end of the text)
WordBoundary(s, i) ==
    LET left == i > 1 /\ IsWordChar(CharAt(s, i - 1))
        right == i <= Len(s) /\ IsWordChar(CharAt(s, i))
    IN left # right

\* none of s[i..j] is one of chars
NoneOf(s, i, j, chars) == \A k \in i..j : ~InChars(CharAt(s, k), chars)

\* KEY [^.\n]{0,gap1} \b(NUM)\b [^.\n]{0,gap2} (TAIL), with \bKEY\b when bounded
Threshold(s, key, bounded, nums, gap1, tails, gap2) ==
    \E i \in 1..Len(s) :
        /\ OccursAt(s, key, i)
        /\ bounded => (WordBoundary(s, i) /\ WordBoundary(s, i + Len(key)))
        /\ \E num \in nums : \E j \in (i + Len(key))..Min(Len(s), i + Len(key) + gap1) :
              /\ OccursAt(s, num, j)
              /\ NoneOf(s, i + Len(key), j - 1, ".\n")
              /\ WordBoundary(s, j)
              /\ WordBoundary(s, j + Len(num))
              /\ \E t \in tails : \E k \in (j + Len(num))..Min(Len(s), j + Len(num) + gap2) :
                    /\ OccursAt(s, t, k)
                    /\ NoneOf(s, j + Len(num), k - 1, ".\n")

ENGLISH_PATTERNS(s) ==
    \/ Threshold(s, "ielts", FALSE, {"6.5", "6", "7.0", "7"}, 80,
                 {"band", "each", "minimum"}, 120)
    \/ Threshold(s, "toefl", FALSE, {"79", "80", "90", "100"}, 80,
                 {"reading", "listening", "speaking", "writing", "section", "minimum"}, 140)
    \/ Threshold(s, "pte", TRUE, {"58", "60", "61"}, 80,
                 {"communicative", "skill", "minimum", "each"}, 140)
    \/ Contains(s, "english language requirement")
    \/ Contains(s, "english proficiency")
    \/ Contains(s, "minimum english")

\* ENGLISH_REGEX.search(text)
ENGLISH_REGEX(text) == ENGLISH_PATTERNS(Lower(text))

EXAM_NAMES == {"gre", "gmat", "toefl", "ielts", "pte", "gate", "cat", "sat", "act"}

\* EXAM_REGEX.search(text): \b(EXAM)\b [^0-9]{0,40} then a digit
EXAM_REGEX(text) ==
    LET s == Lower(text) IN
    \E w \in EXAM_NAMES : \E i \in 1..Len(s) :
        /\ OccursAt(s, w, i)
        /\ WordBoundary(s, i)
        /\ WordBoundary(s, i + Len(w))
        /\ \E k \in (i + Len(w))..Min(Len(s), i + Len(w) + 40) :
              /\ IsDigit(CharAt(s, k))
              /\ NoneOf(s, i + Len(w), k - 1, DIGITS)

WORK_PHRASES ==
    {"work experience", "professional experience", "years of experience",
     "internship requirement"}

\* WORK_EXP_REGEX.search(text): \b(PHRASE)\b, the [^.]{0,200} tail may be empty
WORK_EXP_REGEX(text) ==
    LET s == Lower(text) IN
    \E w \in WORK_PHRASES : \E i \in 1..Len(s) :
        OccursAt(s, w, i) /\ WordBoundary(s, i) /\ WordBoundary(s, i + Len(w))

GENERAL_KEYWORDS ==
    <<"English language", "entry requirements", "admission requirements", "eligibility",
      "prerequisite", "mathematics", "ATAR", "GPA", "tuition", "annual fees",
      "credit points", "duration", "intake", "application deadline">>

PREFERRED_PATH_HINTS ==
    <<"handbook", "study", "courses", "course", "program", "programs", "study-areas">>

BAD_PATHS == <<"login", "apply", "register", "contact", "privacy", "terms", "calendar">>

\* the value None
None == "<None>"

\* UNIVERSITY_DOMAINS.get(university, None)
UNIVERSITY_DOMAINS(uni) ==
    CASE uni = "Monash University" -> "monash.edu"
      [] uni = "University of Washington" -> "uw.edu"
      [] uni = "UH Manoa" -> "manoa.hawaii.edu"
      [] OTHER -> None

(***************************************************************************)
(* URL filtering and scoring                                                *)
(***************************************************************************)
\* smallest index >= from of a character of chars in s, Len(s) + 1 when absent
FirstOf(s, chars, from) ==
    LET hits == {k \in from..Len(s) : InChars(CharAt(s, k), chars)}
    IN IF hits = {} THEN Len(s) + 1 ELSE CHOOSE k \in hits : \A m \in hits : k <= m

\* urlparse(url).netloc: the text between "scheme://" and the next "/", "?" or "#"
Netloc(url) ==
    LET colon == FirstOf(url, ":", 1)
        isScheme == /\ colon > 1
                    /\ colon <= Len(url)
                    /\ InChars(CharAt(url, 1), LOWER \o UPPER)
                    /\ \A k \in 1..(colon - 1) :
                          InChars(CharAt(url, k), LOWER \o UPPER \o DIGITS \o "+-.")
        rest == IF isScheme THEN Slice(url, colon + 1, Len(url)) ELSE url
    IN IF StartsWith(rest, "//")
       THEN Slice(rest, 3, FirstOf(rest, "/?#", 3) - 1)
       ELSE ""

is_same_domain(url, domain) == Contains(Lower(Netloc(url)), domain)

RECURSIVE HintScore(_, _)
\* +3 for every preferred path hint found in lower
HintScore(lower, hints) ==
    IF hints = <<>> THEN 0
    ELSE LET hint == Head(hints) IN
         (IF \/ Contains(lower, "/" \o hint \o "/")
             \/ EndsWith(lower, "/" \o hint)
             \/ Contains(lower, "." \o hint \o ".")
          THEN 3 ELSE 0) + HintScore(lower, Tail(hints))

RECURSIVE BadScore(_, _)
\* -3 for every irrelevant path token found in lower
BadScore(lower, bads) ==
    IF bads = <<>> THEN 0
    ELSE LET bad == Head(bads) IN
         (IF Contains(lower, "/" \o bad) \/ Contains(lower, bad) THEN 0 - 3 ELSE 0)
         + BadScore(lower, Tail(bads))

score_url(url, dom) ==
    LET lower == Lower(url)
    IN (IF dom # None /\ Contains(lower, dom) THEN 5 ELSE 0)
       + HintScore(lower, PREFERRED_PATH_HINTS)
       + BadScore(lower, BAD_PATHS)
       - (IF ~StartsWith(lower, "https://") THEN 1 ELSE 0)

RECURSIVE HardFilterCaseSensitive(_, _, _)
\* the hard-reject filter with the suffix test on the URL as written
HardFilterCaseSensitive(found, uni_norm, dom) ==
    IF found = <<>> THEN <<>>
    ELSE LET url == Head(found)
             lower == Lower(url)
             rest == HardFilterCaseSensitive(Tail(found), uni_norm, dom)
         IN IF EndsWith(url, ".pdf") THEN rest
            ELSE IF dom # None
                 THEN (IF ~is_same_domain(url, dom) THEN rest
                       ELSE <<url>> \o rest)
                 ELSE (IF ~Contains(lower, uni_norm) THEN rest ELSE <<url>> \o rest)

\* the hard-reject loop of filter_and_rank_urls
RECURSIVE HardFilter(_, _, _)
HardFilter(found, uni_norm, dom) ==
    IF found = <<>> THEN <<>>
    ELSE LET url == Head(found)
             lower == Lower(url)
             rest == HardFilter(Tail(found), uni_norm, dom)
         IN IF EndsWith(lower, ".pdf") THEN rest
            ELSE IF dom # None
                 THEN (IF ~is_same_domain(url, dom) THEN rest
                       ELSE <<url>> \o rest)
                 ELSE (IF ~Contains(lower, uni_norm) THEN rest ELSE <<url>> \o rest)

RECURSIVE InsertTiesFirst(_, _, _)
\* inserts u in front of the entries of equal score: equal scores end up reversed
InsertTiesFirst(acc, u, dom) ==
    IF acc = <<>> THEN <<u>>
    ELSE IF score_url(Head(acc), dom) > score_url(u, dom)
         THEN <<Head(acc)>> \o InsertTiesFirst(Tail(acc), u, dom)
         ELSE <<u>> \o acc

\* inserts u behind every entry whose score is >= its own: a stable descending order
RECURSIVE InsertDesc(_, _, _)
InsertDesc(acc, u, dom) ==
    IF acc = <<>> THEN <<u>>
    ELSE IF score_url(Head(acc), dom) >= score_url(u, dom)
         THEN <<Head(acc)>> \o InsertDesc(Tail(acc), u, dom)
         ELSE <<u>> \o acc

RECURSIVE SortedDesc(_, _, _)
\* sorted(list, key=score_url, reverse=True): stable, equal scores keep input order
SortedDesc(list, acc, dom) ==
    IF list = <<>> THEN acc
    ELSE SortedDesc(Tail(list), InsertDesc(acc, Head(list), dom),
                    dom)

filter_and_rank_urls(found, uni, dom, limit) ==
    LET uni_norm == RemoveSpaces(Lower(uni))
        filtered == HardFilter(found, uni_norm, dom)
        sorted == SortedDesc(filtered, <<>>, dom)
    IN Take(sorted, limit)

(***************************************************************************)
(* HTML snippet extraction.  A parsed document is the sequence of its       *)
(* elements in document order, [tag, text] with text the flattened visible  *)
(* text; the elements are siblings, so find_next_sibling() of element i is  *)
(* element i + 1.                                                           *)
(***************************************************************************)
TARGET_TAGS == {"h1", "h2", "h3", "h4", "p", "li", "td", "th", "dt", "dd"}

RECURSIVE AnyKeyword(_, _)
\* any(k.lower() in text.lower() for k in GENERAL_KEYWORDS)
AnyKeyword(lowerText, keywords) ==
    IF keywords = <<>> THEN FALSE
    ELSE Contains(lowerText, Lower(Head(keywords))) \/ AnyKeyword(lowerText, Tail(keywords))

\* the selection test of extract_snippets
Selected(text) ==
    \/ AnyKeyword(Lower(text), GENERAL_KEYWORDS)
    \/ ENGLISH_REGEX(text)
    \/ EXAM_REGEX(text)
    \/ WORK_EXP_REGEX(text)

\* the snippet built for a selected element i: its text plus a short next sibling
SnippetAt(elems, i) ==
    LET text == elems[i].text
        sib_text == IF i < Len(elems) THEN elems[i + 1].text ELSE ""
    IN IF Len(sib_text) > 0 /\ Len(sib_text) < 600
       THEN text \o " " \o sib_text
       ELSE text

RECURSIVE ScanElements(_, _, _, _)
\* the loop over soup.find_all(...): stops once max_snippets were appended
ScanElements(elems, i, got, max_snippets) ==
    IF i > Len(elems) THEN got
    ELSE IF elems[i].tag \notin TARGET_TAGS \/ Len(elems[i].text) = 0
         THEN ScanElements(elems, i + 1, got, max_snippets)
         ELSE LET after == IF Selected(elems[i].text)
                           THEN Append(got, SnippetAt(elems, i))
                           ELSE got
              IN IF Len(after) >= max_snippets THEN after
                 ELSE ScanElements(elems, i + 1, after, max_snippets)

extract_snippets(elems, max_snippets) ==
    Take(Dedup(ScanElements(elems, 1, <<>>, max_snippets), {}), max_snippets)

(***************************************************************************)
(* English requirement normalization                                        *)
(***************************************************************************)
\* the pattern-based fallback test on a normalized line
FallbackMatch(t_norm) ==
    LET low == Lower(t_norm) IN
    \/ Contains(low, "ielts") /\ (Contains(t_norm, "6.5") \/ Contains(t_norm, "7.0"))
    \/ Contains(low, "toefl") /\ \E num \in {"79", "80", "90", "100"} : Contains(t_norm, num)
    \/ Contains(low, "pte") /\ \E num \in {"58", "60", "61"} : Contains(t_norm, num)

RECURSIVE NormalizeLoop(_)
\* the first loop of normalize_english_requirements
NormalizeLoop(text_blocks) ==
    IF text_blocks = <<>> THEN <<>>
    ELSE LET t_norm == SplitJoin(Head(text_blocks))
             rest == NormalizeLoop(Tail(text_blocks))
         IN IF ENGLISH_REGEX(t_norm) THEN <<t_norm>> \o rest
            ELSE IF FallbackMatch(t_norm) THEN <<t_norm>> \o rest
            ELSE rest

\* the fallback applied only to a list none of whose blocks matches ENGLISH_REGEX
normalize_set_level(text_blocks) ==
    LET kept == NormalizeLoop(text_blocks)
        Strict(t) == ENGLISH_REGEX(t)
        strict == SelectSeq(kept, Strict)
    IN Dedup(IF strict # <<>> THEN strict ELSE kept, {})

normalize_english_requirements(text_blocks) == Dedup(NormalizeLoop(text_blocks), {})

(***************************************************************************)
(* Query strategy                                                           *)
(***************************************************************************)
Q == "\""

build_queries(uni, prog, dom, limit) ==
    LET known == dom # None
        site == "site:" \o dom
        base_course_terms ==
            << IF known THEN Q \o prog \o Q \o " " \o site
               ELSE Q \o prog \o Q \o " " \o Q \o uni \o Q,
               IF known THEN prog \o " " \o site \o " handbook"
               ELSE prog \o " " \o uni \o " handbook",
               IF known THEN prog \o " " \o site \o " course"
               ELSE prog \o " " \o uni \o " course",
               IF known THEN prog \o " " \o site \o " study"
               ELSE prog \o " " \o uni \o " study",
               IF known THEN prog \o " " \o site \o " " \o Q \o "entry requirements" \o Q
               ELSE prog \o " " \o uni \o " " \o Q \o "entry requirements" \o Q,
               IF known THEN prog \o " " \o site \o " prerequisites"
               ELSE prog \o " " \o uni \o " prerequisites" >>
        p == Lower(prog)
        cs_terms ==
            IF Contains(p, "computer science") \/ Contains(p, "cs")
            THEN << IF known THEN Q \o "computer science" \o Q \o " " \o site \o " handbook"
                    ELSE Q \o "computer science" \o Q \o " " \o Q \o uni \o Q \o " handbook",
                    IF known THEN "bachelor computer science " \o site
                    ELSE "bachelor computer science " \o Q \o uni \o Q,
                    IF known THEN "master computer science " \o site
                    ELSE "master computer science " \o Q \o uni \o Q >>
            ELSE <<>>
        bio_terms ==
            IF Contains(p, "biomedical") /\ Contains(p, "engineer")
            THEN << IF known THEN "biomedical engineering " \o site \o " handbook"
                    ELSE "biomedical engineering " \o Q \o uni \o Q \o " handbook",
                    IF known THEN "bachelor biomedical engineering " \o site
                    ELSE "bachelor biomedical engineering " \o Q \o uni \o Q,
                    IF known THEN "master biomedical engineering " \o site
                    ELSE "master biomedical engineering " \o Q \o uni \o Q >>
            ELSE <<>>
        english_terms ==
            << IF known THEN site \o " " \o Q \o "English language requirements" \o Q
               ELSE Q \o "English language requirements" \o Q \o " " \o Q \o uni \o Q,
               IF known THEN site \o " English proficiency admission"
               ELSE "English proficiency admission " \o Q \o uni \o Q,
               IF known THEN site \o " IELTS TOEFL PTE undergraduate"
               ELSE "IELTS TOEFL PTE undergraduate " \o Q \o uni \o Q,
               IF known THEN site \o " IELTS TOEFL PTE postgraduate"
               ELSE "IELTS TOEFL PTE postgraduate " \o Q \o uni \o Q >>
    IN [course |-> Take(base_course_terms \o cs_terms \o bio_terms, limit),
        english |-> Take(english_terms, limit)]

(***************************************************************************)
(* The environment: the URLs the search service can return, the pages the   *)
(* web serves at them, and the answers of the search service.               *)
(***************************************************************************)
U1 == "https://handbook.monash.edu/course/abc"
U2 == "http://monash.edu/apply/course"
U3 == "https://www.monash.edu/study/cs"
U4 == "https://www.monash.edu/docs/Guide.PDF"
U5 == "https://example.com/monash.edu/english"
U6 == "https://foouni.ac/course"
UrlPool == {U1, U2, U3, U4, U5, U6}

UniversityPool == {"Monash University", "Foo Uni"}
ProgramPool == {"Master of Computer Science"}

\* a block of 600 characters, too long to be appended as sibling context
LongText ==
    LET a == "lorem ipsum "
        b == a \o a \o a \o a \o a
        c == b \o b \o b \o b \o b
    IN c \o c

El(tag, text) == [tag |-> tag, text |-> text]

\* the parsed document served at each URL
PageOf(url) ==
    CASE url = U1 ->
           << El("h1", "Master of Computer Science"),
              El("p", "Entry requirements: bachelor degree"),
              El("p", "IELTS 6.5 overall, minimum 6.0 in each band"),
              El("li", "TOEFL iBT 79 accepted"),
              El("div", "") >>
      [] url = U2 ->
           << El("p", "Apply now"),
              El("td", "GPA 3 and English  proficiency"),
              El("td", "PTE 58 overall"),
              El("p", "Contact us") >>
      [] url = U3 ->
           << El("li", "TOEFL iBT 79 accepted"),
              El("div", ""),
              El("td", "ATAR 80"), El("td", "GPA 3.0"), El("td", "Tuition 40k"),
              El("td", "Intake Feb"), El("td", "Duration 2y"), El("td", "Eligibility"),
              El("td", "Mathematics"), El("td", "Prerequisite"), El("td", "Credit points 96"),
              El("td", "Annual fees"), El("td", "ATAR 80"), El("td", "GPA 3.0"),
              El("td", "Application deadline"), El("td", "GMAT 650") >>
      [] url = U5 ->
           << El("p", "Foo Uni IELTS is required"),
              El("p", "Work experience preferred") >>
      [] url = U6 ->
           << El("p", "Entry requirements: bachelor degree"),
              El("div", LongText),
              El("li", "IELTS 7.0 or TOEFL 90"),
              El("li", "IELTS 7.0 or TOEFL 90"),
              El("li", "IELTS 7.0 or TOEFL 90") >>
      [] OTHER -> << >>

\* the URLs of the environment for which url.lower().endswith(".pdf")
PdfUrls == {u \in UrlPool : EndsWith(Lower(u), ".pdf")}

\* url.lower().endswith(".pdf"), looked up for the URLs of the environment
IsPdf(url) == IF url \in UrlPool THEN url \in PdfUrls ELSE EndsWith(Lower(url), ".pdf")

\* extract_snippets(html, max_snippets=12) for the document served at each URL
Extracted == [u \in UrlPool |-> extract_snippets(PageOf(u), 12)]

\* response body of a page request: blank is the empty string, page names the document
BlankHtml == [blank |-> TRUE, page |-> None]
Html(url) == [blank |-> FALSE, page |-> url]

\* what one requests.get on a page can do
NetOutcomes(url) ==
    {[status |-> st, body |-> BlankHtml] : st \in {"forbidden", "timeout", "connection"}}
    \cup {[status |-> "ok", body |-> BlankHtml], [status |-> "ok", body |-> Html(url)]}

\* items of a search answer: a dict with a link, a dict without one, a non-dict
Link(u) == [kind |-> "link", link |-> u]
NoLink == [kind |-> "nolink", link |-> None]
Malformed == [kind |-> "malformed", link |-> None]

\* what one call of the search service can do: raise, or return data with items
SearchResponses ==
    { [status |-> "error", items |-> << >>],
      [status |-> "ok", items |-> << >>],
      [status |-> "ok", items |-> <<Link(U1), Link(U4), Link(U2)>>],
      [status |-> "ok", items |-> <<Link(U3), NoLink, Link(U1), Link(U5)>>],
      [status |-> "ok", items |-> <<Link(U2), Malformed, Link(U3)>>],
      [status |-> "ok", items |-> <<Link(U6), Link(U5), Link(U4)>>] }

(***************************************************************************)
(* Dictionaries keep insertion order: a sequence of [url, blocks] entries   *)
(***************************************************************************)
DictKeys(d) == [i \in 1..Len(d) |-> d[i].url]
DictHas(d, url) == \E i \in 1..Len(d) : d[i].url = url
DictGet(d, url) == d[CHOOSE i \in 1..Len(d) : d[i].url = url].blocks
\* d[url] = blocks
DictSet(d, url, blocks) ==
    IF DictHas(d, url)
    THEN [i \in 1..Len(d) |-> IF d[i].url = url THEN [url |-> url, blocks |-> blocks] ELSE d[i]]
    ELSE Append(d, [url |-> url, blocks |-> blocks])

(***************************************************************************)
(* State                                                                    *)
(***************************************************************************)
VARIABLES
    university, program, max_results,   \* the ScrapeRequest
    pc,                                 \* position inside scrape()
    queries, qi, seen, ranked,          \* google_cse_search: list, loop index, locals
    search_log,                         \* history: the calls made by this search
    course_urls, english_urls,
    urls, ui, collected,                \* parse_and_collect: list, loop index, local
    fetch_log,                          \* history: one entry per http_get_text call
    course_sources, english_sources,
    english_snippets, source_map, final_snippets,
    final_src,                          \* history: the source URL of each final snippet
    result                              \* the response, None until scrape returns

vars == <<university, program, max_results, pc, queries, qi, seen, ranked, search_log,
          course_urls, english_urls, urls, ui, collected, fetch_log,
          course_sources, english_sources, english_snippets, source_map,
          final_snippets, final_src, result>>

requestVars == <<university, program, max_results>>
searchVars == <<queries, qi, seen, ranked, search_log>>
fetchVars == <<urls, ui, collected, fetch_log>>
mergeVars == <<english_snippets, source_map, final_snippets, final_src, result>>

university_domain == UNIVERSITY_DOMAINS(university)

\* largest max_results of a request
MaxResultsBound == 4

(***************************************************************************)
(* google_cse_search                                                        *)
(***************************************************************************)
RECURSIVE TakeLinks(_, _, _)
\* the loop over items; it.get("link") raises on an item that is not a dict,
\* which leaves the loop with what was appended so far
TakeLinks(items, seenNow, rankedNow) ==
    IF items = <<>> THEN [seen |-> seenNow, ranked |-> rankedNow, raised |-> FALSE]
    ELSE LET it == Head(items) IN
         IF it.kind = "malformed"
         THEN [seen |-> seenNow, ranked |-> rankedNow, raised |-> TRUE]
         ELSE IF it.kind = "link" /\ it.link \notin seenNow
              THEN TakeLinks(Tail(items), seenNow \cup {it.link}, Append(rankedNow, it.link))
              ELSE TakeLinks(Tail(items), seenNow, rankedNow)

\* one iteration of `for q in queries`: the call, the item loop, the except clause
CseCall ==
    /\ pc \in {"course_search", "english_search"}
    /\ qi <= Len(queries)
    /\ \E resp \in SearchResponses :
          LET r == IF resp.status = "ok"
                   THEN TakeLinks(resp.items, seen, ranked)
                   ELSE [seen |-> seen, ranked |-> ranked, raised |-> TRUE]
          IN /\ seen' = r.seen
             /\ ranked' = r.ranked
             /\ search_log' = Append(search_log,
                                     [q |-> queries[qi], resp |-> resp, raised |-> r.raised])
    /\ qi' = qi + 1
    /\ UNCHANGED <<requestVars, pc, queries, course_urls, english_urls,
                   fetchVars, course_sources, english_sources, mergeVars>>

(***************************************************************************)
(* discover_course_pages / discover_english_pages                           *)
(***************************************************************************)
\* filter_and_rank_urls on the search result; discover_course_pages returns
DiscoverCourse ==
    /\ pc = "course_search"
    /\ qi > Len(queries)
    /\ course_urls' = filter_and_rank_urls(ranked, university, university_domain, max_results)
    /\ pc' = "english_discovery"
    /\ UNCHANGED <<requestVars, searchVars, english_urls, fetchVars, course_sources,
                   english_sources, mergeVars>>

\* discover_english_pages is entered: build_queries, then google_cse_search starts
StartEnglish ==
    /\ pc = "english_discovery"
    /\ queries' = build_queries(university, "", university_domain, max_results).english
    /\ qi' = 1
    /\ seen' = {}
    /\ ranked' = <<>>
    /\ search_log' = <<>>
    /\ pc' = "english_search"
    /\ UNCHANGED <<requestVars, course_urls, english_urls, fetchVars, course_sources,
                   english_sources, mergeVars>>

RECURSIVE OfficialOnly(_, _)
\* the filter loop of discover_english_pages
OfficialOnly(found, domain) ==
    IF found = <<>> THEN <<>>
    ELSE IF domain # None
         THEN (IF is_same_domain(Head(found), domain)
               THEN <<Head(found)>> \o OfficialOnly(Tail(found), domain)
               ELSE OfficialOnly(Tail(found), domain))
         ELSE <<Head(found)>> \o OfficialOnly(Tail(found), domain)

\* discover_english_pages returns (the locals of the search go out of scope);
\* scrape enters parse_and_collect(course_urls)
DiscoverEnglish ==
    /\ pc = "english_search"
    /\ qi > Len(queries)
    /\ english_urls' = Take(Dedup(OfficialOnly(ranked, university_domain), {}), max_results)
    /\ queries' = <<>>
    /\ qi' = 1
    /\ seen' = {}
    /\ ranked' = <<>>
    /\ search_log' = <<>>
    /\ urls' = course_urls
    /\ ui' = 1
    /\ collected' = <<>>
    /\ fetch_log' = <<>>
    /\ pc' = "fetch_course"
    /\ UNCHANGED <<requestVars, course_urls, course_sources, english_sources, mergeVars>>

(***************************************************************************)
(* http_get_text / parse_and_collect                                        *)
(***************************************************************************)
\* http_get_text(url) when the network would answer net: the number of
\* requests.get calls made, whether it raised, and the text returned
http_get_text(url, net) ==
    IF IsPdf(url)
    THEN [requests |-> 0, raised |-> FALSE, html |-> BlankHtml]
    ELSE IF net.status # "ok"
         THEN [requests |-> 1, raised |-> TRUE, html |-> BlankHtml]
         ELSE [requests |-> 1, raised |-> FALSE, html |-> net.body]

\* an except clause that catches request errors only
CatchesRequestErrors(exception) == exception = "http"

\* the except clause of parse_and_collect: `except Exception` catches every
\* exception http_get_text or extract_snippets raises
Catches(exception) == TRUE

\* the body of `for url in urls` for one url; parses is FALSE when
\* extract_snippets raises on the text
CollectOne(dict, url, net, parses) ==
    LET got == http_get_text(url, net)
        extracting == ~got.raised /\ ~got.html.blank
        raised == IF got.raised THEN "http" ELSE IF extracting /\ ~parses THEN "parse" ELSE None
        snippets == IF extracting /\ parses THEN Extracted[got.html.page] ELSE <<>>
    IN [collected |-> IF snippets # <<>> THEN DictSet(dict, url, snippets) ELSE dict,
        propagated |-> raised # None /\ ~Catches(raised),
        entry |-> [url |-> url, requests |-> got.requests, fetched |-> ~got.raised,
                   blank |-> got.html.blank,
                   caught |-> raised # None /\ Catches(raised)]]

\* one iteration of the loop of parse_and_collect
FetchOne ==
    /\ pc \in {"fetch_course", "fetch_english"}
    /\ ui <= Len(urls)
    /\ \E net \in NetOutcomes(urls[ui]) :
       \E parses \in IF net.status = "ok" /\ ~net.body.blank THEN BOOLEAN ELSE {TRUE} :
          LET r == CollectOne(collected, urls[ui], net, parses)
          IN /\ collected' = r.collected
             /\ fetch_log' = Append(fetch_log, r.entry)
             /\ pc' = IF r.propagated THEN "error" ELSE pc
    /\ ui' = ui + 1
    /\ UNCHANGED <<requestVars, searchVars, course_urls, english_urls, urls,
                   course_sources, english_sources, mergeVars>>

\* parse_and_collect(course_urls) returns; parse_and_collect(english_urls) starts
CollectCourse ==
    /\ pc = "fetch_course"
    /\ ui > Len(urls)
    /\ course_sources' = collected
    /\ urls' = english_urls
    /\ ui' = 1
    /\ collected' = <<>>
    /\ fetch_log' = <<>>
    /\ pc' = "fetch_english"
    /\ UNCHANGED <<requestVars, searchVars, course_urls, english_urls, english_sources,
                   mergeVars>>

\* parse_and_collect(english_urls) returns (its locals go out of scope)
CollectEnglish ==
    /\ pc = "fetch_english"
    /\ ui > Len(urls)
    /\ english_sources' = collected
    /\ urls' = <<>>
    /\ ui' = 1
    /\ collected' = <<>>
    /\ fetch_log' = <<>>
    /\ pc' = "merge"
    /\ UNCHANGED <<requestVars, searchVars, course_urls, english_urls, course_sources,
                   mergeVars>>

(***************************************************************************)
(* scrape: normalization of the English sources, source map, final list     *)
(***************************************************************************)
RECURSIVE KeepMatching(_)
\* [b for b in blocks if ENGLISH_REGEX.search(b)]
KeepMatching(blocks) ==
    IF blocks = <<>> THEN <<>>
    ELSE IF ENGLISH_REGEX(Head(blocks)) THEN <<Head(blocks)>> \o KeepMatching(Tail(blocks))
    ELSE KeepMatching(Tail(blocks))

\* use_blocks for the blocks of one English source
UseBlocks(blocks) ==
    LET normalized == normalize_english_requirements(blocks)
    IN IF normalized # <<>> THEN normalized ELSE KeepMatching(blocks)

\* use_blocks for the blocks extracted from each page of the environment
UseBlocksOf == [u \in UrlPool |-> UseBlocks(Extracted[u])]

\* UseBlocks(blocks), looked up when blocks are the blocks of a page
UseBlocksAt(url, blocks) ==
    IF url \in UrlPool /\ blocks = Extracted[url] THEN UseBlocksOf[url] ELSE UseBlocks(blocks)

\* a list of snippets, each paired with the URL it was taken from
Tagged(url, blocks) == [i \in 1..Len(blocks) |-> [text |-> blocks[i], url |-> url]]
Texts(tagged) == [i \in 1..Len(tagged) |-> tagged[i].text]
Sources(tagged) == [i \in 1..Len(tagged) |-> tagged[i].url]

RECURSIVE EnglishLoop(_)
\* the loop extending english_snippets over english_sources.items()
EnglishLoop(sources) ==
    IF sources = <<>> THEN <<>>
    ELSE Tagged(Head(sources).url, UseBlocksAt(Head(sources).url, Head(sources).blocks))
         \o EnglishLoop(Tail(sources))

RECURSIVE NotIn(_, _)
\* [b for b in blocks if b not in existing]
NotIn(blocks, existing) ==
    IF blocks = <<>> THEN <<>>
    ELSE IF Head(blocks) \in SeqToSet(existing) THEN NotIn(Tail(blocks), existing)
    ELSE <<Head(blocks)>> \o NotIn(Tail(blocks), existing)

RECURSIVE MergeSources(_, _)
\* the loop merging english_sources into source_map
MergeSources(map, sources) ==
    IF sources = <<>> THEN map
    ELSE LET url == Head(sources).url
             blocks == Head(sources).blocks
         IN IF DictHas(map, url)
            THEN MergeSources(DictSet(map, url,
                                      DictGet(map, url) \o NotIn(blocks, DictGet(map, url))),
                              Tail(sources))
            ELSE MergeSources(DictSet(map, url, blocks), Tail(sources))

RECURSIVE CourseLoop(_, _)
\* the loop extending final_snippets over course_urls
CourseLoop(list, sources) ==
    IF list = <<>> THEN <<>>
    ELSE (IF DictHas(sources, Head(list))
          THEN Tagged(Head(list), DictGet(sources, Head(list)))
          ELSE <<>>)
         \o CourseLoop(Tail(list), sources)

\* the response with the cap max_results * 3, without the floor of 10
ResponseCapNoFloor(final, map, limit) ==
    [dataFound |-> Len(final) > 0,
     sourceURLs |-> DictKeys(map),
     snippets |-> Take(final, limit * 3),
     rawHTML |-> None]

\* the response with dataFound taken from the source map
ResponseFoundBySources(final, map, limit) ==
    [dataFound |-> Len(map) > 0,
     sourceURLs |-> DictKeys(map),
     snippets |-> Take(final, Max(10, limit * 3)),
     rawHTML |-> None]

\* the response with the source list cut to max_results entries
ResponseSourcesCut(final, map, limit) ==
    [dataFound |-> Len(final) > 0,
     sourceURLs |-> Take(DictKeys(map), limit),
     snippets |-> Take(final, Max(10, limit * 3)),
     rawHTML |-> None]

\* the `result` dict built at the end of scrape()
ScrapeResponse(final, map, limit) ==
    [dataFound |-> Len(final) > 0,
     sourceURLs |-> DictKeys(map),
     snippets |-> Take(final, Max(10, limit * 3)),
     rawHTML |-> None]

\* the rest of scrape() after both parse_and_collect calls, up to the return
Merge ==
    /\ pc = "merge"
    /\ LET english == EnglishLoop(english_sources)
           map == MergeSources(course_sources, english_sources)
           final == CourseLoop(course_urls, course_sources) \o english
       IN /\ english_snippets' = Texts(english)
          /\ source_map' = map
          /\ final_snippets' = Texts(final)
          /\ final_src' = Sources(final)
          /\ result' = ScrapeResponse(Texts(final), map, max_results)
    /\ pc' = "done"
    /\ UNCHANGED <<requestVars, searchVars, course_urls, english_urls, fetchVars,
                   course_sources, english_sources>>

(***************************************************************************)
(* The request handler from the parsed request to the response              *)
(***************************************************************************)
\* the state when scrape() has parsed the request and enters discover_course_pages
Start(bound) ==
    /\ university \in UniversityPool
    /\ program \in ProgramPool
    /\ max_results \in 1..bound
    /\ pc = "course_search"
    /\ queries = build_queries(university, program, university_domain, max_results).course
    /\ qi = 1
    /\ seen = {}
    /\ ranked = <<>>
    /\ search_log = <<>>
    /\ course_urls = <<>>
    /\ english_urls = <<>>
    /\ urls = <<>>
    /\ ui = 1
    /\ collected = <<>>
    /\ fetch_log = <<>>
    /\ course_sources = <<>>
    /\ english_sources = <<>>
    /\ english_snippets = <<>>
    /\ source_map = <<>>
    /\ final_snippets = <<>>
    /\ final_src = <<>>
    /\ result = None

Init == Start(MaxResultsBound)

Next ==
    \/ CseCall
    \/ DiscoverCourse
    \/ StartEnglish
    \/ DiscoverEnglish
    \/ FetchOne
    \/ CollectCourse
    \/ CollectEnglish
    \/ Merge

Spec == Init /\ [][Next]_vars

(***************************************************************************)
(* Properties                                                               *)
(***************************************************************************)
Fetching == pc \in {"fetch_course", "fetch_english"}
Searching == pc \in {"course_search", "english_search"}

\* C1: a failed attempt on a non-PDF URL is followed by a further attempt until
\* one succeeds or 3 attempts were made, and no URL gets more than 3 attempts:
\* every http_get_text call that ended in failure made exactly 3 requests.
C1_RetriesUntilThreeAttempts ==
    \A i \in 1..Len(fetch_log) :
        fetch_log[i].url \notin PdfUrls =>
            /\ fetch_log[i].requests <= 3
            /\ ~fetch_log[i].fetched => fetch_log[i].requests = 3

\* C2: a fetch or extraction failure on one URL is not raised to the caller:
\* scrape never ends in an error, every URL of the list up to the loop position
\* has been fetched whatever happened to the URLs before it, a URL whose fetch
\* or extraction raised has no entry in `collected`, and an entry is exactly
\* what extraction yields for the page.
C2_FailureStaysLocal ==
    /\ pc # "error"
    /\ Fetching =>
          /\ Len(fetch_log) = ui - 1
          /\ \A i \in 1..Len(fetch_log) :
                /\ fetch_log[i].url = urls[i]
                /\ fetch_log[i].caught => ~DictHas(collected, urls[i])
                /\ DictHas(collected, urls[i]) <=>
                      (/\ fetch_log[i].fetched /\ ~fetch_log[i].blank /\ ~fetch_log[i].caught
                       /\ Extracted[urls[i]] # <<>>)
                /\ DictHas(collected, urls[i]) =>
                      DictGet(collected, urls[i]) = Extracted[urls[i]]

\* a URL failed and a URL behind it in the list was still fetched and extracted
C2_Witness ==
    /\ Fetching
    /\ \E i, j \in 1..Len(fetch_log) :
          i < j /\ fetch_log[i].caught /\ DictHas(collected, urls[j])

\* the links a search answer offers: the "link" of every item that has one
RECURSIVE LinksOf(_)
LinksOf(items) ==
    IF items = <<>> THEN <<>>
    ELSE IF Head(items).kind = "link" THEN <<Head(items).link>> \o LinksOf(Tail(items))
    ELSE LinksOf(Tail(items))

\* the links of the successful calls of log, concatenated in call order; a
\* call answered with an item that is no dict counts as failed when strict,
\* and as successful with that item skipped otherwise
RECURSIVE SuccessfulLinks(_, _)
SuccessfulLinks(log, strict) ==
    IF log = <<>> THEN <<>>
    ELSE (IF Head(log).resp.status # "ok" \/ (strict /\ Head(log).raised) THEN <<>>
          ELSE LinksOf(Head(log).resp.items))
         \o SuccessfulLinks(Tail(log), strict)

\* C3: google_cse_search calls the service once per query in list order and
\* returns the first-occurrence de-duplication of the links of the successful
\* calls in call order; failed calls contribute nothing, the result has no
\* duplicate, and it is empty when every call failed.
C3_MergedLinksOfSuccessfulCalls ==
    Searching =>
        /\ Len(search_log) = qi - 1
        /\ \A i \in 1..Len(search_log) : search_log[i].q = queries[i]
        /\ \/ ranked = Dedup(SuccessfulLinks(search_log, TRUE), {})
           \/ ranked = Dedup(SuccessfulLinks(search_log, FALSE), {})
        /\ NoDup(ranked)
        /\ (\A i \in 1..Len(search_log) : search_log[i].raised) => ranked = <<>>

\* C4: no URL ending in a PDF suffix is in the output of filter_and_rank_urls,
\* and http_get_text returns empty content for such a URL without a request.
C4_PdfNeverRankedNorRequested ==
    /\ \A i \in 1..Len(course_urls) : course_urls[i] \notin PdfUrls
    /\ \A i \in 1..Len(fetch_log) :
          fetch_log[i].url \in PdfUrls =>
              /\ fetch_log[i].requests = 0
              /\ fetch_log[i].blank
              /\ ~fetch_log[i].caught
              /\ Fetching => ~DictHas(collected, fetch_log[i].url)

\* ranking has produced course URLs and http_get_text was called on a PDF URL
C4_Witness ==
    /\ course_urls # <<>>
    /\ \E i \in 1..Len(fetch_log) : fetch_log[i].url \in PdfUrls /\ fetch_log[i].requests = 0

\* score_url of every URL of the environment, per university of the environment
ScoreOf ==
    [uni \in UniversityPool |->
        [u \in UrlPool |-> score_url(u, UNIVERSITY_DOMAINS(uni))]]

\* the URLs of the environment that pass the hard-reject rules, per university
PassOf ==
    [uni \in UniversityPool |->
        {u \in UrlPool :
            /\ ~EndsWith(Lower(u), ".pdf")
            /\ IF UNIVERSITY_DOMAINS(uni) # None
               THEN Contains(Lower(Netloc(u)), UNIVERSITY_DOMAINS(uni))
               ELSE Contains(Lower(u), RemoveSpaces(Lower(uni)))}]

\* the position of x in the duplicate-free list s
PosIn(s, x) == CHOOSE i \in 1..Len(s) : s[i] = x

\* x comes before y in the ranking of the list s: higher score, or equal score
\* and earlier in s
RanksBefore(s, x, y) ==
    \/ ScoreOf[university][x] > ScoreOf[university][y]
    \/ ScoreOf[university][x] = ScoreOf[university][y] /\ PosIn(s, x) < PosIn(s, y)

\* C5: the output of filter_and_rank_urls holds only URLs of the input that
\* pass the hard-reject filter, ordered by score descending with equal scores
\* in input order, and it is the first `limit` of them: every passing URL left
\* out ranks behind every URL kept.
C5_StableRankingTruncated ==
    pc = "english_discovery" =>
        LET passing == SeqToSet(ranked) \cap PassOf[university]
            kept == SeqToSet(course_urls)
        IN /\ kept \subseteq passing
           /\ NoDup(course_urls)
           /\ Len(course_urls) = Min(max_results, Cardinality(passing))
           /\ \A i, j \in 1..Len(course_urls) :
                 i < j => RanksBefore(ranked, course_urls[i], course_urls[j])
           /\ \A x \in passing \ kept :
                 \A i \in 1..Len(course_urls) : RanksBefore(ranked, course_urls[i], x)

\* two URLs of equal score are kept, a passing URL is cut off by the limit and
\* a URL of the input is rejected
C5_Witness ==
    /\ pc = "english_discovery"
    /\ \E i, j \in 1..Len(course_urls) :
          i < j /\ ScoreOf[university][course_urls[i]] = ScoreOf[university][course_urls[j]]
    /\ (SeqToSet(ranked) \cap PassOf[university]) \ SeqToSet(course_urls) # {}
    /\ SeqToSet(ranked) \ PassOf[university] # {}

\* C6: the snippet list of the response holds no string twice.
C6_NoDuplicateSnippets ==
    pc = "done" => NoDup(result.snippets)

\* the snippets collected for the k-th course URL
CourseBlocks(k) ==
    IF DictHas(course_sources, course_urls[k])
    THEN DictGet(course_sources, course_urls[k])
    ELSE <<>>

\* the number of snippets collected for the course URLs before the k-th
RECURSIVE CourseOffset(_)
CourseOffset(k) ==
    IF k = 1 THEN 0 ELSE CourseOffset(k - 1) + Len(CourseBlocks(k - 1))

\* C7: the snippet list of the response is, position by position, the snippets
\* of the course URLs in ranked order, each URL's snippets in extraction
\* order, then the normalized English snippets, cut to max(10, max_results * 3).
C7_CourseThenEnglishCapped ==
    pc = "done" =>
        LET out == result.snippets
            cap == IF max_results * 3 > 10 THEN max_results * 3 ELSE 10
            englishAt == CourseOffset(Len(course_urls) + 1)
        IN /\ Len(out) = Min(cap, englishAt + Len(english_snippets))
           /\ \A k \in 1..Len(course_urls) :
                 /\ DictHas(course_sources, course_urls[k]) =>
                       CourseBlocks(k) = Extracted[course_urls[k]]
                 /\ \A i \in 1..Len(CourseBlocks(k)) :
                       CourseOffset(k) + i <= Len(out) =>
                           out[CourseOffset(k) + i] = CourseBlocks(k)[i]
           /\ \A i \in 1..Len(english_snippets) :
                 englishAt + i <= Len(out) => out[englishAt + i] = english_snippets[i]

\* two course URLs and the English pages gave snippets, max_results * 3 is the
\* cap, and the cap cut the list
C7_Witness ==
    /\ pc = "done"
    /\ Len(course_sources) >= 2
    /\ english_snippets # <<>>
    /\ max_results * 3 > 10
    /\ Len(result.snippets) = max_results * 3
    /\ Len(final_snippets) > max_results * 3

\* C8: scrape never ends in an error; in the response dataFound is true iff
\* the snippet list is non-empty, and when no page gave anything the response
\* is the well-formed one with an empty snippet list and dataFound false.
C8_DataFoundIffSnippets ==
    /\ pc # "error"
    /\ pc = "done" =>
          /\ DOMAIN result = {"dataFound", "sourceURLs", "snippets", "rawHTML"}
          /\ result.dataFound <=> Len(result.snippets) > 0
          /\ (course_sources = <<>> /\ english_sources = <<>>) =>
                /\ result.snippets = <<>>
                /\ result.sourceURLs = <<>>
                /\ ~result.dataFound

\* course and English URLs were discovered, every fetch of them gave nothing,
\* and the response was returned
C8_Witness ==
    /\ pc = "done"
    /\ course_urls # <<>>
    /\ english_urls # <<>>
    /\ course_sources = <<>>
    /\ english_sources = <<>>
    /\ ~result.dataFound

\* the URLs of the snippets that are in the response
SurvivingSources ==
    {final_src[k] : k \in 1..Len(result.snippets)}

\* C9 as stated: no URL is listed twice in sourceURLs, every URL with a
\* snippet surviving in the response is listed, and every URL listed is a
\* contributing one: it has a snippet surviving in the response.
C9_SourceListIsContributingUrls ==
    pc = "done" =>
        /\ NoDup(result.sourceURLs)
        /\ SurvivingSources \subseteq SeqToSet(result.sourceURLs)
        /\ SeqToSet(result.sourceURLs) \subseteq SurvivingSources

\* C9 amended: no URL is listed twice in sourceURLs, every URL with a snippet
\* surviving in the response is listed, and the URLs listed are exactly those
\* of the pages a snippet was extracted from (course pages first, then the
\* English pages not yet listed), whether or not a snippet of theirs survives.
C9_SourceListIsExtractedUrls ==
    pc = "done" =>
        /\ NoDup(result.sourceURLs)
        /\ SurvivingSources \subseteq SeqToSet(result.sourceURLs)
        /\ SeqToSet(result.sourceURLs) =
              SeqToSet(DictKeys(course_sources)) \cup SeqToSet(DictKeys(english_sources))
        /\ \A i \in 1..Len(result.sourceURLs) :
              Extracted[result.sourceURLs[i]] # <<>>
        /\ \A i \in 1..Len(course_sources) :
              result.sourceURLs[i] = course_sources[i].url

\* the response lists a URL with a surviving snippet and a URL without one
C9_Witness ==
    /\ pc = "done"
    /\ SurvivingSources # {}
    /\ SeqToSet(result.sourceURLs) \ SurvivingSources # {}
    /\ Len(course_sources) >= 1
    /\ Len(english_sources) >= 1

\* every block extracted from a page of the environment
AllBlocks == UNION {SeqToSet(Extracted[u]) : u \in UrlPool}

\* " ".join(t.split()) of every block
NormOf == [b \in AllBlocks |-> SplitJoin(b)]

\* the whitespace-normalized blocks that match the strict pattern family
StrictLines == {NormOf[b] : b \in {x \in AllBlocks : ENGLISH_REGEX(NormOf[x])}}

\* the whitespace-normalized blocks that pass the fallback token test
FallbackLines == {NormOf[b] : b \in {x \in AllBlocks : FallbackMatch(NormOf[x])}}

IsStrictLine(t) == t \in StrictLines
IsFallbackLine(t) == t \in FallbackLines
IsKeptLine(t) == t \in StrictLines \cup FallbackLines

\* the whitespace-normalized blocks of the English source url, in input order
NormBlocks(url) ==
    LET blocks == DictGet(english_sources, url)
    IN [i \in 1..Len(blocks) |-> NormOf[blocks[i]]]

\* the English snippets taken from url, in the order of english_snippets
EnglishLinesOf(url) ==
    LET base == Len(final_snippets) - Len(english_snippets)
        FromUrl(k) == final_src[base + k] = url
        at == SelectSeq([k \in 1..Len(english_snippets) |-> k], FromUrl)
    IN [i \in 1..Len(at) |-> english_snippets[at[i]]]

\* C10 as stated: for each English URL, when a snippet of its set matches the
\* strict family the output is only the strict-matching snippets, and
\* otherwise the snippets that pass the fallback rule; de-duplicated, in input
\* order.
C10_FallbackOnlyWithoutStrict ==
    pc = "done" =>
        \A i \in 1..Len(english_sources) :
            LET url == english_sources[i].url
                strict == SelectSeq(NormBlocks(url), IsStrictLine)
            IN EnglishLinesOf(url) =
                  Dedup(IF strict # <<>> THEN strict
                        ELSE SelectSeq(NormBlocks(url), IsFallbackLine), {})

\* C10 amended: for each English URL the output is the whitespace-normalized
\* snippets that match the strict family or, each on its own, pass the
\* fallback rule, whatever the other snippets of the set match; de-duplicated,
\* in input order.
C10_FallbackPerSnippet ==
    pc = "done" =>
        /\ Len(english_snippets) <= Len(final_snippets)
        /\ \A i \in 1..Len(english_sources) :
              LET url == english_sources[i].url
              IN /\ DictGet(english_sources, url) = Extracted[url]
                 /\ EnglishLinesOf(url) = Dedup(SelectSeq(NormBlocks(url), IsKeptLine), {})
                 /\ NoDup(EnglishLinesOf(url))

\* an English URL has a snippet matching the strict family, and a snippet of
\* it that only passes the fallback rule is among the English snippets
C10_Witness ==
    /\ pc = "done"
    /\ \E i \in 1..Len(english_sources) :
          LET url == english_sources[i].url
          IN /\ \E k \in 1..Len(NormBlocks(url)) : NormBlocks(url)[k] \in StrictLines
             /\ \E k \in 1..Len(EnglishLinesOf(url)) :
                   EnglishLinesOf(url)[k] \in FallbackLines \ StrictLines

====
